---- MODULE Spec2Model ----
(***************************************************************************)
(* Rich-text editor containers of draft-js-demo.                           *)
(*                                                                         *)
(*   src/src/RichTextEditor.tsx   class component  RichEditor              *)
(*   src/unnamed/part_000         function component RichEditor (Select)   *)
(*   src/src/MyEditor.tsx         MyEditor (Bold button only)              *)
(*                                                                         *)
(* The containers hold one EditorState handle and route every toolbar       *)
(* click, key event and engine callback through onChange.  The engine      *)
(* (draft-js: EditorState, RichUtils, getDefaultKeyBinding, Editor) is     *)
(* imported, not part of the repository; the operators named after its     *)
(* functions give the behaviour of the library calls the containers make.  *)
(*                                                                         *)
(* An EditorState handle is the record                                     *)
(*   blocks              the block map, in order; a block's key is its     *)
(*                       index; a block is [type, depth, chars] and chars  *)
(*                       is the sequence of the inline-style sets of its   *)
(*                       characters                                        *)
(*   selection           [startKey, startOffset, endKey, endOffset,        *)
(*                       hasFocus]                                         *)
(*   inlineStyleOverride <<>> (null) or <<style set>>                      *)
(* Handles are compared by value: an engine call that returns its argument *)
(* returns an equal record, and every call that allocates a new state      *)
(* changes one of the three fields.                                        *)
(***************************************************************************)
EXTENDS Integers, Sequences, FiniteSets, TLC

VARIABLES
    editor,        \* the Editor ref's current: TRUE once the surface is mounted
    state,         \* class component: this.state
    editorState,   \* function component: the useState value its closures read
    queue,         \* class component: state updates setState has queued
    queueFC,       \* function component: state updates setEditorState has queued
    view,          \* class component: what the last render() showed
    viewFC,        \* function component: what the last render showed
    last,          \* class component: the last event and what its handlers returned
    lastFC,        \* function component: the same
    dispatched,    \* the toolbar and Tab requests dispatched since the last commit
    component,     \* the editor of App the behaviour drives (they share no state)
    myEditorState, \* MyEditor: the useState value its closures read
    queueMy,       \* MyEditor: state updates setEditorState has queued
    lastMy         \* MyEditor: the last event and what its handlers returned

vars == <<editor, state, editorState, queue, queueFC, view, viewFC, last, lastFC,
          dispatched, component, myEditorState, queueMy, lastMy>>

\* The variables of MyEditor.
varsMy == <<myEditorState, queueMy, lastMy>>

\* Longest plain text of a document: its characters plus one separator per
\* block after the first.
MaxTextLen == 1

\* Most requests dispatched before React commits the queued state updates.
MaxBatch == 2

\* RichUtils.onTab's third argument.
maxDepth == 4

\* The key code mapKeyToEditorCommand intercepts.
TAB == 9

Range(s) == {s[i] : i \in DOMAIN s}

Max(S) == CHOOSE x \in S : \A y \in S : y <= x

-----------------------------------------------------------------------------
(* The catalogs.                                                           *)

BLOCK_TYPES ==
    << [label |-> "H1", style |-> "header-one"],
       [label |-> "H2", style |-> "header-two"],
       [label |-> "H3", style |-> "header-three"],
       [label |-> "H4", style |-> "header-four"],
       [label |-> "H5", style |-> "header-five"],
       [label |-> "H6", style |-> "header-six"],
       [label |-> "Blockquote", style |-> "blockquote"],
       [label |-> "Code Block", style |-> "code-block"],
       [label |-> "UL", style |-> "unordered-list-item"],
       [label |-> "OL", style |-> "ordered-list-item"] >>

INLINE_STYLES ==
    << [label |-> "Bold", style |-> "BOLD"],
       [label |-> "Italic", style |-> "ITALIC"],
       [label |-> "Underline", style |-> "UNDERLINE"],
       [label |-> "Monospace", style |-> "CODE"] >>

headings ==
    << [label |-> "H1", value |-> "header-one"],
       [label |-> "H2", value |-> "header-two"],
       [label |-> "H3", value |-> "header-three"],
       [label |-> "H4", value |-> "header-four"],
       [label |-> "H5", value |-> "header-five"],
       [label |-> "H6", value |-> "header-six"] >>

lists ==
    << [label |-> "UL", value |-> "unordered-list-item"],
       [label |-> "OL", value |-> "ordered-list-item"] >>

otherBlockTypes ==
    << [label |-> "Blockquote", value |-> "blockquote"],
       [label |-> "Code Block", value |-> "code-block"] >>

blockTypes == otherBlockTypes \o headings \o lists

-----------------------------------------------------------------------------
(* The engine: EditorState.                                                *)

EditorState_createEmpty ==
    [ blocks |-> << [type |-> "unstyled", depth |-> 0, chars |-> <<>>] >>,
      selection |-> [startKey |-> 1, startOffset |-> 0,
                     endKey |-> 1, endOffset |-> 0, hasFocus |-> FALSE],
      inlineStyleOverride |-> <<>> ]

isCollapsed(selection) ==
    /\ selection.startKey = selection.endKey
    /\ selection.startOffset = selection.endOffset

getLength(block) == Len(block.chars)

\* ContentState.hasText
hasText(blocks) ==
    Len(blocks) > 1 \/ getLength(blocks[1]) > 0

\* ContentState.getPlainText().length
PlainTextLen(blocks) ==
    LET lenUpTo[k \in 0..Len(blocks)] ==
            IF k = 0 THEN 0 ELSE lenUpTo[k - 1] + getLength(blocks[k])
    IN  lenUpTo[Len(blocks)] + (Len(blocks) - 1)

\* The style of the last character of the closest non-empty block above.
lookUpwardForInlineStyle(blocks, fromKey) ==
    LET above == {k \in 1..(fromKey - 1) : getLength(blocks[k]) > 0}
    IN  IF above = {} THEN {}
        ELSE blocks[Max(above)].chars[getLength(blocks[Max(above)])]

getInlineStyleForCollapsedSelection(blocks, selection) ==
    LET startBlock == blocks[selection.startKey]
        startOffset == selection.startOffset
    IN  IF startOffset > 0 THEN startBlock.chars[startOffset]
        ELSE IF getLength(startBlock) > 0 THEN startBlock.chars[1]
        ELSE lookUpwardForInlineStyle(blocks, selection.startKey)

getInlineStyleForNonCollapsedSelection(blocks, selection) ==
    LET startBlock == blocks[selection.startKey]
        startOffset == selection.startOffset
    IN  IF startOffset < getLength(startBlock) THEN startBlock.chars[startOffset + 1]
        ELSE IF startOffset > 0 THEN startBlock.chars[startOffset]
        ELSE lookUpwardForInlineStyle(blocks, selection.startKey)

getCurrentInlineStyle(es) ==
    IF es.inlineStyleOverride # <<>> THEN es.inlineStyleOverride[1]
    ELSE IF isCollapsed(es.selection)
         THEN getInlineStyleForCollapsedSelection(es.blocks, es.selection)
         ELSE getInlineStyleForNonCollapsedSelection(es.blocks, es.selection)

EditorState_setInlineStyleOverride(es, inlineStyleOverride) ==
    [es EXCEPT !.inlineStyleOverride = <<inlineStyleOverride>>]

\* EditorState.acceptSelection: the selection is replaced and the override dropped.
EditorState_acceptSelection(es, selection) ==
    [es EXCEPT !.selection = selection, !.inlineStyleOverride = <<>>]

\* EditorState.forceSelection: as acceptSelection, and the selection gains focus.
EditorState_forceSelection(es, selection) ==
    EditorState_acceptSelection(es, [selection EXCEPT !.hasFocus = TRUE])

\* EditorState.push: an unchanged content returns the state it was given; the
\* override survives a change of depth or block type and a block split.
EditorState_push(es, blocks, selectionAfter, changeType) ==
    IF blocks = es.blocks THEN es
    ELSE [ blocks |-> blocks,
           selection |-> selectionAfter,
           inlineStyleOverride |->
               IF changeType \in {"adjust-depth", "change-block-type", "split-block"}
               THEN es.inlineStyleOverride ELSE <<>> ]

-----------------------------------------------------------------------------
(* The engine: DraftModifier.                                              *)

DraftModifier_setBlockType(blocks, selection, blockType) ==
    [k \in DOMAIN blocks |->
        IF selection.startKey <= k /\ k <= selection.endKey
        THEN [blocks[k] EXCEPT !.type = blockType, !.depth = 0]
        ELSE blocks[k]]

\* ContentStateInlineStyle: add or remove a style on the selected characters.
modifyInlineStyle(blocks, selection, inlineStyle, addOrRemove) ==
    [k \in DOMAIN blocks |->
        IF selection.startKey <= k /\ k <= selection.endKey
        THEN LET sliceStart == IF k = selection.startKey THEN selection.startOffset ELSE 0
                 sliceEnd == IF k = selection.endKey THEN selection.endOffset
                             ELSE getLength(blocks[k])
             IN  [blocks[k] EXCEPT !.chars =
                    [i \in DOMAIN blocks[k].chars |->
                        IF sliceStart < i /\ i <= sliceEnd
                        THEN IF addOrRemove THEN blocks[k].chars[i] \cup {inlineStyle}
                             ELSE blocks[k].chars[i] \ {inlineStyle}
                        ELSE blocks[k].chars[i]]]
        ELSE blocks[k]]

DraftModifier_applyInlineStyle(blocks, selection, inlineStyle) ==
    modifyInlineStyle(blocks, selection, inlineStyle, TRUE)

DraftModifier_removeInlineStyle(blocks, selection, inlineStyle) ==
    modifyInlineStyle(blocks, selection, inlineStyle, FALSE)

adjustBlockDepthForContentState(blocks, selection, adjustment, max) ==
    [k \in DOMAIN blocks |->
        IF selection.startKey <= k /\ k <= selection.endKey
        THEN LET depth == blocks[k].depth + adjustment
                 capped == IF depth > max THEN max ELSE depth
             IN  [blocks[k] EXCEPT !.depth = IF capped < 0 THEN 0 ELSE capped]
        ELSE blocks[k]]

-----------------------------------------------------------------------------
(* The engine: RichUtils.                                                  *)

\* A selection that ends at offset 0 of a later block stops at the end of the
\* block before it; a range holding an atomic block is left alone; the type of
\* the first selected block decides between setting the type and 'unstyled'.
RichUtils_toggleBlockType(es, blockType) ==
    LET selection == es.selection
        target == IF selection.startKey # selection.endKey /\ selection.endOffset = 0
                  THEN [selection EXCEPT
                           !.endKey = selection.endKey - 1,
                           !.endOffset = getLength(es.blocks[selection.endKey - 1])]
                  ELSE selection
        hasAtomicBlock == \E k \in target.startKey..target.endKey :
                              es.blocks[k].type = "atomic"
        typeToSet == IF es.blocks[target.startKey].type = blockType
                     THEN "unstyled" ELSE blockType
    IN  IF hasAtomicBlock THEN es
        ELSE EditorState_push(es,
                 DraftModifier_setBlockType(es.blocks, target, typeToSet),
                 target, "change-block-type")

\* Collapsed: the override is toggled.  A range: the style is removed from the
\* range when the current style has it, applied otherwise.
RichUtils_toggleInlineStyle(es, inlineStyle) ==
    LET currentStyle == getCurrentInlineStyle(es)
    IN  IF isCollapsed(es.selection)
        THEN EditorState_setInlineStyleOverride(es,
                 IF inlineStyle \in currentStyle
                 THEN currentStyle \ {inlineStyle}
                 ELSE currentStyle \cup {inlineStyle})
        ELSE EditorState_push(es,
                 IF inlineStyle \in currentStyle
                 THEN DraftModifier_removeInlineStyle(es.blocks, es.selection, inlineStyle)
                 ELSE DraftModifier_applyInlineStyle(es.blocks, es.selection, inlineStyle),
                 es.selection, "change-inline-style")

RichUtils_toggleCode(es) ==
    IF isCollapsed(es.selection) \/ es.selection.startKey # es.selection.endKey
    THEN RichUtils_toggleBlockType(es, "code-block")
    ELSE RichUtils_toggleInlineStyle(es, "CODE")

RichUtils_onTab(e, es, max) ==
    LET selection == es.selection
        block == es.blocks[selection.startKey]
    IN  IF selection.startKey # selection.endKey THEN es
        ELSE IF block.type \notin {"unordered-list-item", "ordered-list-item"} THEN es
        ELSE IF ~e.shiftKey /\ block.depth = max THEN es
        ELSE EditorState_push(es,
                 adjustBlockDepthForContentState(es.blocks, selection,
                     IF e.shiftKey THEN -1 ELSE 1, max),
                 selection, "adjust-depth")

\* <<>> (null) or <<content>>.
RichUtils_tryToRemoveBlockStyle(es) ==
    LET selection == es.selection
        key == selection.startKey
        block == es.blocks[key]
    IN  IF isCollapsed(selection) /\ selection.startOffset = 0
        THEN IF /\ block.type = "code-block"
                /\ key > 1
                /\ es.blocks[key - 1].type = "code-block"
                /\ getLength(es.blocks[key - 1]) # 0
             THEN <<>>
             ELSE IF block.type # "unstyled"
                  THEN << DraftModifier_setBlockType(es.blocks, selection, "unstyled") >>
                  ELSE <<>>
        ELSE <<>>

RemoveAt(s, k) == [i \in 1..(Len(s) - 1) |-> IF i < k THEN s[i] ELSE s[i + 1]]

\* <<>> (null) or <<state>>: an atomic block before the caret is removed, else
\* the block style at the caret.
RichUtils_onBackspace(es) ==
    LET selection == es.selection
        startKey == selection.startKey
    IN  IF ~isCollapsed(selection) \/ selection.startOffset # 0 THEN <<>>
        ELSE IF startKey > 1 /\ es.blocks[startKey - 1].type = "atomic"
        THEN << EditorState_push(es, RemoveAt(es.blocks, startKey - 1),
                    [selection EXCEPT !.startKey = startKey - 1, !.endKey = startKey - 1],
                    "remove-range") >>
        ELSE LET withoutBlockStyle == RichUtils_tryToRemoveBlockStyle(es)
             IN  IF withoutBlockStyle # <<>>
                 THEN << EditorState_push(es, withoutBlockStyle[1], selection,
                             "change-block-type") >>
                 ELSE <<>>

\* <<>> (null) or <<state>>: an atomic block after the caret at a block's end
\* is removed.
RichUtils_onDelete(es) ==
    LET selection == es.selection
        startKey == selection.startKey
    IN  IF ~isCollapsed(selection) THEN <<>>
        ELSE IF selection.startOffset < getLength(es.blocks[startKey]) THEN <<>>
        ELSE IF startKey = Len(es.blocks) \/ es.blocks[startKey + 1].type # "atomic"
        THEN <<>>
        ELSE << EditorState_push(es, RemoveAt(es.blocks, startKey + 1), selection,
                    "remove-range") >>

\* <<>> (null) or <<state>>.
RichUtils_handleKeyCommand(es, command) ==
    CASE command = "bold" -> << RichUtils_toggleInlineStyle(es, "BOLD") >>
      [] command = "italic" -> << RichUtils_toggleInlineStyle(es, "ITALIC") >>
      [] command = "underline" -> << RichUtils_toggleInlineStyle(es, "UNDERLINE") >>
      [] command = "code" -> << RichUtils_toggleCode(es) >>
      [] command \in {"backspace", "backspace-word", "backspace-to-start-of-line"} ->
            RichUtils_onBackspace(es)
      [] command \in {"delete", "delete-word", "delete-to-end-of-block"} ->
            RichUtils_onDelete(es)
      [] OTHER -> <<>>

\* getDefaultKeyBinding on a key event [keyCode, shiftKey, ctrlKey]: the
\* command's name, or "null".
getDefaultKeyBinding(e) ==
    CASE e.keyCode = 66 -> IF e.ctrlKey THEN "bold" ELSE "null"
      [] e.keyCode = 73 -> IF e.ctrlKey THEN "italic" ELSE "null"
      [] e.keyCode = 74 -> IF e.ctrlKey THEN "code" ELSE "null"
      [] e.keyCode = 85 -> IF e.ctrlKey THEN "underline" ELSE "null"
      [] e.keyCode = 90 -> IF ~e.ctrlKey THEN "null"
                           ELSE IF e.shiftKey THEN "redo" ELSE "undo"
      [] e.keyCode = 13 -> "split-block"
      [] e.keyCode = 46 -> IF e.shiftKey THEN "null"
                           ELSE IF e.ctrlKey THEN "delete-word" ELSE "delete"
      [] e.keyCode = 8 -> IF e.ctrlKey THEN "backspace-word" ELSE "backspace"
      [] OTHER -> "null"

-----------------------------------------------------------------------------
(* The engine: the Editor surface.  Each operator gives the states the     *)
(* surface hands to its onChange prop.                                     *)

\* Editor.focus(): a surface whose selection has no focus re-applies its
\* selection with focus through onChange.
Editor_focus(es) ==
    IF ~es.selection.hasFocus
    THEN << EditorState_forceSelection(es, es.selection) >>
    ELSE <<>>

\* Every selection of a document, with focus.
Selections(blocks) ==
    {sel \in [startKey : DOMAIN blocks, startOffset : 0..MaxTextLen + 1,
              endKey : DOMAIN blocks, endOffset : 0..MaxTextLen + 1,
              hasFocus : {TRUE}] :
        /\ sel.startOffset <= getLength(blocks[sel.startKey])
        /\ sel.endOffset <= getLength(blocks[sel.endKey])
        /\ \/ sel.startKey < sel.endKey
           \/ sel.startKey = sel.endKey /\ sel.startOffset <= sel.endOffset}

\* The user moves the caret or selects a range (also: clicks into the text).
Editor_select(es, selection) ==
    EditorState_acceptSelection(es, selection)

InsertAt(s, k, x) ==
    [i \in 1..(Len(s) + 1) |-> IF i <= k THEN s[i] ELSE IF i = k + 1 THEN x ELSE s[i - 1]]

\* A typed character takes the current inline style; the caret moves past it.
Editor_insertChar(es) ==
    LET sel == es.selection
        block == es.blocks[sel.startKey]
        blocks == [es.blocks EXCEPT ![sel.startKey].chars =
                      InsertAt(block.chars, sel.startOffset, getCurrentInlineStyle(es))]
    IN  EditorState_push(es, blocks,
            [sel EXCEPT !.startOffset = sel.startOffset + 1,
                        !.endOffset = sel.startOffset + 1],
            "insert-characters")

\* Backspace inside a block's text removes the character before the caret.
Editor_backspace(es) ==
    LET sel == es.selection
        block == es.blocks[sel.startKey]
        blocks == [es.blocks EXCEPT ![sel.startKey].chars =
                      RemoveAt(block.chars, sel.startOffset)]
    IN  EditorState_push(es, blocks,
            [sel EXCEPT !.startOffset = sel.startOffset - 1,
                        !.endOffset = sel.startOffset - 1],
            "backspace-character")

\* Return splits the caret's block; both halves keep its type and depth.
Editor_splitBlock(es) ==
    LET sel == es.selection
        key == sel.startKey
        block == es.blocks[key]
        above == [block EXCEPT !.chars = SubSeq(block.chars, 1, sel.startOffset)]
        below == [block EXCEPT !.chars =
                     SubSeq(block.chars, sel.startOffset + 1, getLength(block))]
        blocks == InsertAt([es.blocks EXCEPT ![key] = above], key, below)
    IN  EditorState_push(es, blocks,
            [sel EXCEPT !.startKey = key + 1, !.startOffset = 0,
                        !.endKey = key + 1, !.endOffset = 0],
            "split-block")

\* A pasted <figure> arrives as an 'atomic' block after the caret's block,
\* with the caret in it.
Editor_pasteFigure(es) ==
    LET sel == es.selection
        key == sel.startKey
        figure == [type |-> "atomic", depth |-> 0, chars |-> <<>>]
    IN  EditorState_push(es, InsertAt(es.blocks, key, figure),
            [sel EXCEPT !.startKey = key + 1, !.startOffset = 0,
                        !.endKey = key + 1, !.endOffset = 0],
            "insert-fragment")

\* The key events the model sends: [keyCode, shiftKey, ctrlKey].
KeyInputs ==
    [keyCode : {TAB}, shiftKey : BOOLEAN, ctrlKey : {FALSE}]
    \cup [keyCode : {66, 74}, shiftKey : {FALSE}, ctrlKey : {TRUE}]
    \cup [keyCode : {8, 13, 46, 65}, shiftKey : {FALSE}, ctrlKey : {FALSE}]

-----------------------------------------------------------------------------
(* StyleButton and the two control groups (both files).                    *)

StyleButton(active, style, label) ==
    [label |-> label, style |-> style, active |-> active]

\* A faulty BlockStyleControls: reads the type of the first block instead of
\* the block at the selection start.
BlockStyleControlsFirstBlock(es) ==
    LET blockType == es.blocks[1].type
    IN  [i \in DOMAIN BLOCK_TYPES |->
            StyleButton(BLOCK_TYPES[i].style = blockType,
                        BLOCK_TYPES[i].style, BLOCK_TYPES[i].label)]

\* src/src/RichTextEditor.tsx: one button per catalog entry.
BlockStyleControls(es) ==
    LET blockType == es.blocks[es.selection.startKey].type
    IN  [i \in DOMAIN BLOCK_TYPES |->
            StyleButton(BLOCK_TYPES[i].style = blockType,
                        BLOCK_TYPES[i].style, BLOCK_TYPES[i].label)]

\* ramda's find with the Select's test: the first option whose value is the
\* block type, <<>> for undefined.
findActive(blockType, list) ==
    LET hits == {i \in DOMAIN list : blockType = list[i].value}
    IN  IF hits = {} THEN <<>>
        ELSE << list[CHOOSE i \in hits : \A j \in hits : i <= j] >>

\* src/unnamed/part_000: the Select's value.
BlockStyleControlsFC(es) ==
    LET blockType == es.blocks[es.selection.startKey].type
    IN  findActive(blockType, blockTypes)

\* A faulty InlineStyleControls: reads the style of the text at the selection
\* and misses the style override of a collapsed selection.
InlineStyleControlsNoOverride(es) ==
    LET currentStyle == getCurrentInlineStyle([es EXCEPT !.inlineStyleOverride = <<>>])
    IN  [i \in DOMAIN INLINE_STYLES |->
            StyleButton(INLINE_STYLES[i].style \in currentStyle,
                        INLINE_STYLES[i].style, INLINE_STYLES[i].label)]

InlineStyleControls(es) ==
    LET currentStyle == getCurrentInlineStyle(es)
    IN  [i \in DOMAIN INLINE_STYLES |->
            StyleButton(INLINE_STYLES[i].style \in currentStyle,
                        INLINE_STYLES[i].style, INLINE_STYLES[i].label)]

InlineStyleControlsFC(es) ==
    LET currentStyle == getCurrentInlineStyle(es)
    IN  [i \in DOMAIN INLINE_STYLES |->
            StyleButton(INLINE_STYLES[i].style \in currentStyle,
                        INLINE_STYLES[i].style, INLINE_STYLES[i].label)]

\* The styles of the buttons a control group shows active.
Active(buttons) == {b.style : b \in {c \in Range(buttons) : c.active}}

-----------------------------------------------------------------------------
(* The class component, src/src/RichTextEditor.tsx.  A handler is given    *)
(* `this` = [state, editor] and yields [ret, setState]: what it returns    *)
(* ("undefined" for nothing) and the state updates it passed to setState,  *)
(* in order.                                                               *)

onChange(this, newEditorState) ==
    << [editorState |-> newEditorState] >>

\* A faulty focus: does not look at the ref before focusing.
focusUnmounted(this) ==
    LET calls == Editor_focus(this.state.editorState)
    IN  [ret |-> "undefined",
         setState |-> IF calls = <<>> THEN <<>> ELSE onChange(this, calls[1])]

focus(this) ==
    IF this.editor
    THEN LET calls == Editor_focus(this.state.editorState)
         IN  [ret |-> "undefined",
              setState |-> IF calls = <<>> THEN <<>> ELSE onChange(this, calls[1])]
    ELSE [ret |-> "undefined", setState |-> <<>>]

\* A faulty handleKeyCommand: takes the command as handled only when the
\* engine's state differs from the one passed in.
handleKeyCommandIfDiffers(this, command, es) ==
    LET newState == RichUtils_handleKeyCommand(es, command)
    IN  IF newState # <<>> /\ newState[1] # es
        THEN [ret |-> "handled", setState |-> onChange(this, newState[1])]
        ELSE [ret |-> "not-handled", setState |-> <<>>]

handleKeyCommand(this, command, es) ==
    LET newState == RichUtils_handleKeyCommand(es, command)
    IN  IF newState # <<>>
        THEN [ret |-> "handled", setState |-> onChange(this, newState[1])]
        ELSE [ret |-> "not-handled", setState |-> <<>>]

\* A faulty mapKeyToEditorCommand: the maximum depth is off by one.
mapKeyToEditorCommandShallow(this, e) ==
    IF e.keyCode = TAB
    THEN LET newEditorState == RichUtils_onTab(e, this.state.editorState, maxDepth - 1)
         IN  [ret |-> "null",
              setState |-> IF newEditorState # this.state.editorState
                           THEN onChange(this, newEditorState) ELSE <<>>]
    ELSE [ret |-> getDefaultKeyBinding(e), setState |-> <<>>]

mapKeyToEditorCommand(this, e) ==
    IF e.keyCode = TAB
    THEN LET newEditorState == RichUtils_onTab(e, this.state.editorState, maxDepth)
         IN  [ret |-> "null",
              setState |-> IF newEditorState # this.state.editorState
                           THEN onChange(this, newEditorState) ELSE <<>>]
    ELSE [ret |-> getDefaultKeyBinding(e), setState |-> <<>>]

\* A faulty toggleBlockType: sets the block type instead of toggling it.
toggleBlockTypeSet(this, blockType) ==
    [ret |-> "undefined",
     setState |-> onChange(this,
                      EditorState_push(this.state.editorState,
                          DraftModifier_setBlockType(this.state.editorState.blocks,
                              this.state.editorState.selection, blockType),
                          this.state.editorState.selection, "change-block-type"))]

toggleBlockType(this, blockType) ==
    [ret |-> "undefined",
     setState |-> onChange(this,
                      RichUtils_toggleBlockType(this.state.editorState, blockType))]

\* A faulty toggleInlineStyle: toggles BOLD whatever style was asked for.
toggleInlineStyleBold(this, inlineStyle) ==
    [ret |-> "undefined",
     setState |-> onChange(this,
                      RichUtils_toggleInlineStyle(this.state.editorState, "BOLD"))]

toggleInlineStyle(this, inlineStyle) ==
    [ret |-> "undefined",
     setState |-> onChange(this,
                      RichUtils_toggleInlineStyle(this.state.editorState, inlineStyle))]

render(this) ==
    LET es == this.state.editorState
        contentState == es.blocks
        isUnStyled == contentState[1].type # "unstyled"
    IN  [block |-> BlockStyleControls(es),
         inline |-> InlineStyleControls(es),
         hidePlaceholder |-> hasText(contentState) /\ isUnStyled]

-----------------------------------------------------------------------------
(* The function component, src/unnamed/part_000.  Its handlers are closures *)
(* of one render: `scope` = [editorState, editor] is what that render saw. *)

onChangeFC(scope, newEditorState) ==
    << newEditorState >>

focusFC(scope) ==
    IF scope.editor
    THEN LET calls == Editor_focus(scope.editorState)
         IN  [ret |-> "undefined",
              setState |-> IF calls = <<>> THEN <<>> ELSE onChangeFC(scope, calls[1])]
    ELSE [ret |-> "undefined", setState |-> <<>>]

handleKeyCommandFC(scope, command, es) ==
    LET newState == RichUtils_handleKeyCommand(es, command)
    IN  IF newState # <<>>
        THEN [ret |-> "handled", setState |-> onChangeFC(scope, newState[1])]
        ELSE [ret |-> "not-handled", setState |-> <<>>]

mapKeyToEditorCommandFC(scope, e) ==
    IF e.keyCode = TAB
    THEN LET newEditorState == RichUtils_onTab(e, scope.editorState, maxDepth)
         IN  [ret |-> "null",
              setState |-> IF newEditorState # scope.editorState
                           THEN onChangeFC(scope, newEditorState) ELSE <<>>]
    ELSE [ret |-> getDefaultKeyBinding(e), setState |-> <<>>]

\* A faulty toggleBlockTypeFC: ignores the request for the type the Select
\* already shows.
toggleBlockTypeFCIgnoreSame(scope, blockType) ==
    [ret |-> "undefined",
     setState |->
         IF scope.editorState.blocks[scope.editorState.selection.startKey].type
               = blockType
         THEN <<>>
         ELSE onChangeFC(scope,
                  RichUtils_toggleBlockType(scope.editorState, blockType))]

toggleBlockTypeFC(scope, blockType) ==
    [ret |-> "undefined",
     setState |-> onChangeFC(scope,
                      RichUtils_toggleBlockType(scope.editorState, blockType))]

toggleInlineStyleFC(scope, inlineStyle) ==
    [ret |-> "undefined",
     setState |-> onChangeFC(scope,
                      RichUtils_toggleInlineStyle(scope.editorState, inlineStyle))]

renderFC(scope) ==
    LET contentState == scope.editorState.blocks
        isUnStyled == contentState[1].type # "unstyled"
    IN  [block |-> BlockStyleControlsFC(scope.editorState),
         inline |-> InlineStyleControlsFC(scope.editorState),
         hidePlaceholder |-> hasText(contentState) /\ isUnStyled]

-----------------------------------------------------------------------------
(* MyEditor, src/src/MyEditor.tsx: a Bold button and the surface.  Its     *)
(* handlers are closures of one render: `scope` = [editorState].           *)

\* The Bold button's onMouseDown.
MyEditor_onMouseDown(scope) ==
    LET newState == RichUtils_toggleInlineStyle(scope.editorState, "BOLD")
    IN  [ret |-> "undefined", setState |-> << newState >>]

\* The surface's onChange prop.
MyEditor_onChange(scope, newEditorState) ==
    << newEditorState >>

\* The surface's handleKeyCommand prop.
MyEditor_handleKeyCommand(scope, command, es) ==
    LET newState == RichUtils_handleKeyCommand(es, command)
    IN  IF newState # <<>>
        THEN [ret |-> "handled", setState |-> << newState[1] >>]
        ELSE [ret |-> "not-handled", setState |-> <<>>]

-----------------------------------------------------------------------------
(* React and the Editor surface drive the containers.  setState queues an  *)
(* update; a commit applies the queued updates in order (each replaces     *)
(* editorState, so the last one stands) and renders.  The surface's        *)
(* keydown handler calls keyBindingFn and, for a command, handleKeyCommand *)
(* with the state it holds.                                                *)

Commit(st, updates) ==
    IF updates = <<>> THEN st ELSE updates[Len(updates)]

This == [state |-> state, editor |-> editor]

Scope == [editorState |-> editorState, editor |-> editor]

\* One keydown on the class component: [command, ret, setState].
KeyDownResult(this, e) ==
    LET binding == mapKeyToEditorCommand(this, e)
    IN  IF binding.ret = "null"
        THEN [command |-> "null", ret |-> "undefined", setState |-> binding.setState]
        ELSE LET handled == handleKeyCommand(this, binding.ret, this.state.editorState)
             IN  [command |-> binding.ret, ret |-> handled.ret,
                  setState |-> binding.setState \o handled.setState]

\* One keydown on the function component.
KeyDownResultFC(scope, e) ==
    LET binding == mapKeyToEditorCommandFC(scope, e)
    IN  IF binding.ret = "null"
        THEN [command |-> "null", ret |-> "undefined", setState |-> binding.setState]
        ELSE LET handled == handleKeyCommandFC(scope, binding.ret, scope.editorState)
             IN  [command |-> binding.ret, ret |-> handled.ret,
                  setState |-> binding.setState \o handled.setState]

ScopeMy == [editorState |-> myEditorState]

\* One keydown on MyEditor: no keyBindingFn is given, so the surface uses
\* getDefaultKeyBinding.
KeyDownResultMy(scope, e) ==
    LET command == getDefaultKeyBinding(e)
    IN  IF command = "null"
        THEN [command |-> "null", ret |-> "undefined", setState |-> <<>>]
        ELSE LET handled == MyEditor_handleKeyCommand(scope, command, scope.editorState)
             IN  [command |-> command, ret |-> handled.ret,
                  setState |-> handled.setState]

Void(r) == [command |-> "null", ret |-> r.ret, setState |-> r.setState]

\* An event handled and committed in one step: React commits the updates of
\* a discrete event before the next event is dispatched.
Event(op, rC, rF) ==
    /\ component = "RichEditor"
    /\ dispatched = <<>>
    /\ state' = Commit(state, rC.setState)
    /\ editorState' = Commit(editorState, rF.setState)
    /\ view' = render([state |-> state', editor |-> editor])
    /\ viewFC' = renderFC([editorState |-> editorState', editor |-> editor])
    /\ last' = IF rC.setState = <<>> THEN last ELSE [op |-> op, ret |-> rC.ret]
    /\ lastFC' = IF rF.setState = <<>> THEN lastFC ELSE [op |-> op, ret |-> rF.ret]
    /\ UNCHANGED <<editor, queue, queueFC, dispatched, component, varsMy>>

Init ==
    /\ editor = FALSE
    /\ state = [editorState |-> EditorState_createEmpty]
    /\ editorState = EditorState_createEmpty
    /\ queue = <<>>
    /\ queueFC = <<>>
    /\ view = render([state |-> state, editor |-> editor])
    /\ viewFC = renderFC([editorState |-> editorState, editor |-> editor])
    /\ last = [op |-> "init", ret |-> "undefined"]
    /\ lastFC = [op |-> "init", ret |-> "undefined"]
    /\ dispatched = <<>>
    /\ component \in {"RichEditor", "MyEditor"}
    /\ myEditorState = EditorState_createEmpty
    /\ queueMy = <<>>
    /\ lastMy = [op |-> "init", ret |-> "undefined"]

\* The surface mounts: the ref is set.
Mount ==
    /\ component = "RichEditor"
    /\ ~editor
    /\ editor' = TRUE
    /\ UNCHANGED <<state, editorState, queue, queueFC, view, viewFC, last, lastFC,
                   dispatched, component, varsMy>>

\* A block-type button is pressed / a Select option is chosen.
ClickBlockType ==
    /\ editor
    /\ \E type \in Range(BLOCK_TYPES) :
          Event("toggleBlockType", Void(toggleBlockType(This, type.style)),
                Void(toggleBlockTypeFC(Scope, type.style)))

\* An inline-style button is pressed.
ClickInlineStyle ==
    /\ editor
    /\ \E type \in Range(INLINE_STYLES) :
          Event("toggleInlineStyle", Void(toggleInlineStyle(This, type.style)),
                Void(toggleInlineStyleFC(Scope, type.style)))

\* A key goes down in the focused surface.
KeyDown ==
    /\ editor
    /\ state.editorState.selection.hasFocus
    /\ \E e \in KeyInputs :
          Event("keyDown", KeyDownResult(This, e), KeyDownResultFC(Scope, e))

\* The editor area is clicked (onClick = focus); focus() may also be called
\* before the surface is mounted.
ClickEditor ==
    /\ dispatched = <<>>
    /\ Event("focus", Void(focus(This)), Void(focusFC(Scope)))

\* The surface reports a state of its own making through its onChange prop.
Deliver(newEditorState, newEditorStateFC) ==
    Event("onChange",
          [command |-> "null", ret |-> "undefined",
           setState |-> onChange(This, newEditorState)],
          [command |-> "null", ret |-> "undefined",
           setState |-> onChangeFC(Scope, newEditorStateFC)])

EditSelect ==
    /\ editor
    /\ \E selection \in Selections(state.editorState.blocks) :
          /\ selection # state.editorState.selection
          /\ Deliver(Editor_select(state.editorState, selection),
                     Editor_select(editorState, selection))

Typing(es) ==
    /\ es.selection.hasFocus
    /\ isCollapsed(es.selection)
    /\ PlainTextLen(es.blocks) < MaxTextLen

EditInsertChar ==
    /\ editor
    /\ Typing(state.editorState)
    /\ Deliver(Editor_insertChar(state.editorState), Editor_insertChar(editorState))

EditSplitBlock ==
    /\ editor
    /\ Typing(state.editorState)
    /\ Deliver(Editor_splitBlock(state.editorState), Editor_splitBlock(editorState))

EditPasteFigure ==
    /\ editor
    /\ Typing(state.editorState)
    /\ Deliver(Editor_pasteFigure(state.editorState), Editor_pasteFigure(editorState))

EditBackspace ==
    /\ editor
    /\ state.editorState.selection.hasFocus
    /\ isCollapsed(state.editorState.selection)
    /\ state.editorState.selection.startOffset > 0
    /\ Deliver(Editor_backspace(state.editorState), Editor_backspace(editorState))

\* The states the surface may hand to onChange from the state es it holds.
SurfaceChanges(es) ==
    {Editor_select(es, selection) :
        selection \in Selections(es.blocks) \ {es.selection}}
    \cup (IF Typing(es)
          THEN {Editor_insertChar(es), Editor_splitBlock(es), Editor_pasteFigure(es)}
          ELSE {})
    \cup (IF /\ es.selection.hasFocus
             /\ isCollapsed(es.selection)
             /\ es.selection.startOffset > 0
          THEN {Editor_backspace(es)}
          ELSE {})

\* An event of MyEditor handled and committed in one step.
MyEvent(op, r) ==
    /\ component = "MyEditor"
    /\ dispatched = <<>>
    /\ myEditorState' = Commit(myEditorState, r.setState)
    /\ lastMy' = IF r.setState = <<>> THEN lastMy ELSE [op |-> op, ret |-> r.ret]
    /\ UNCHANGED <<editor, state, editorState, queue, queueFC, view, viewFC, last,
                   lastFC, dispatched, component, queueMy>>

\* MyEditor's Bold button is pressed.
MyMouseDownBold ==
    /\ component = "MyEditor"
    /\ MyEvent("toggleInlineStyle", Void(MyEditor_onMouseDown(ScopeMy)))

\* A key goes down in MyEditor's focused surface.
MyKeyDown ==
    /\ myEditorState.selection.hasFocus
    /\ \E e \in KeyInputs : MyEvent("keyDown", KeyDownResultMy(ScopeMy, e))

\* MyEditor's surface reports a state of its own making.
MyEditorChange ==
    /\ component = "MyEditor"
    /\ \E newEditorState \in SurfaceChanges(myEditorState) :
          MyEvent("onChange",
                  [command |-> "null", ret |-> "undefined",
                   setState |-> MyEditor_onChange(ScopeMy, newEditorState)])

Next ==
    \/ Mount
    \/ ClickBlockType
    \/ ClickInlineStyle
    \/ KeyDown
    \/ ClickEditor
    \/ EditSelect
    \/ EditInsertChar
    \/ EditSplitBlock
    \/ EditPasteFigure
    \/ EditBackspace
    \/ MyMouseDownBold
    \/ MyKeyDown
    \/ MyEditorChange

Spec == Init /\ [][Next]_vars

-----------------------------------------------------------------------------
(* The same containers when React defers the commit: setState only queues, *)
(* this.state and the closures of the last render stay as they are until   *)
(* the commit, and a second request may be dispatched before it.           *)

\* The toolbar and Tab requests: [op, arg].
Requests ==
    [op : {"toggleBlockType"}, arg : {type.style : type \in Range(BLOCK_TYPES)}]
    \cup [op : {"toggleInlineStyle"}, arg : {type.style : type \in Range(INLINE_STYLES)}]
    \cup [op : {"keyDown"}, arg : {"Tab", "Shift+Tab"}]

TabEvent(arg) == [keyCode |-> TAB, shiftKey |-> (arg = "Shift+Tab"), ctrlKey |-> FALSE]

\* The class component's handler for a request.
Handle(this, req) ==
    CASE req.op = "toggleBlockType" -> toggleBlockType(this, req.arg)
      [] req.op = "toggleInlineStyle" -> toggleInlineStyle(this, req.arg)
      [] OTHER -> mapKeyToEditorCommand(this, TabEvent(req.arg))

\* The function component's handler for a request.
HandleFC(scope, req) ==
    CASE req.op = "toggleBlockType" -> toggleBlockTypeFC(scope, req.arg)
      [] req.op = "toggleInlineStyle" -> toggleInlineStyleFC(scope, req.arg)
      [] OTHER -> mapKeyToEditorCommandFC(scope, TabEvent(req.arg))

\* A request is dispatched: its handler runs against this.state (the closure's
\* editorState) and queues its update.
Dispatch ==
    /\ component = "RichEditor"
    /\ editor
    /\ Len(dispatched) < MaxBatch
    /\ \E req \in Requests :
          /\ req.op = "keyDown" => state.editorState.selection.hasFocus
          /\ queue' = queue \o Handle(This, req).setState
          /\ queueFC' = queueFC \o HandleFC(Scope, req).setState
          /\ dispatched' = Append(dispatched, req)
    /\ UNCHANGED <<editor, state, editorState, view, viewFC, last, lastFC,
                   component, varsMy>>

\* MyEditor's Bold button is pressed: the closure's editorState is toggled
\* and the update queued.
DispatchMy ==
    /\ component = "MyEditor"
    /\ Len(dispatched) < MaxBatch
    /\ queueMy' = queueMy \o MyEditor_onMouseDown(ScopeMy).setState
    /\ dispatched' = Append(dispatched, [op |-> "toggleInlineStyle", arg |-> "BOLD"])
    /\ UNCHANGED <<editor, state, editorState, queue, queueFC, view, viewFC, last,
                   lastFC, component, myEditorState, lastMy>>

\* React commits: the queued updates are applied and the components render.
Flush ==
    /\ dispatched # <<>>
    /\ state' = Commit(state, queue)
    /\ editorState' = Commit(editorState, queueFC)
    /\ view' = render([state |-> state', editor |-> editor])
    /\ viewFC' = renderFC([editorState |-> editorState', editor |-> editor])
    /\ queue' = <<>>
    /\ queueFC' = <<>>
    /\ dispatched' = <<>>
    /\ myEditorState' = Commit(myEditorState, queueMy)
    /\ queueMy' = <<>>
    /\ UNCHANGED <<editor, last, lastFC, component, lastMy>>

NextBatched ==
    \/ Mount
    \/ ClickEditor
    \/ Dispatch
    \/ MyEditorChange
    \/ DispatchMy
    \/ Flush

SpecBatched == Init /\ [][NextBatched]_vars

-----------------------------------------------------------------------------
(* Properties.                                                             *)

\* The type of the block at the start of the selection.
TypeAtSelection(es) == es.blocks[es.selection.startKey].type

\* The styles of a catalog.
Styles(catalog) == {type.style : type \in Range(catalog)}

\* The text of a document: the number of characters of each block.
Text(es) == [k \in DOMAIN es.blocks |-> Len(es.blocks[k].chars)]

\* The value shown by the block-type Select of the function component.
SelectValue(v) == {option.value : option \in Range(v.block)}

\* C1: from the empty document (no text, first block 'unstyled'), one
\* toggleBlockType('header-one') leaves a document that still has no text,
\* shows H1 as the active block control and sets the hidePlaceholder marker.
C1_PlaceholderHiddenAfterH1 ==
    [][(/\ ~hasText(state.editorState.blocks)
        /\ state.editorState.blocks[1].type = "unstyled"
        /\ last'.op = "toggleBlockType"
        /\ state'.editorState.blocks[1].type = "header-one")
       => (/\ ~hasText(state'.editorState.blocks)
           /\ Active(view'.block) = {"header-one"}
           /\ view'.hidePlaceholder
           /\ viewFC'.hidePlaceholder)]_vars

\* C5: after every step, each inline-style button is active exactly when its
\* style is in the engine's current inline style set for the held handle, in
\* both containers.
C5_InlineButtonsShowCurrentStyle ==
    /\ Len(view.inline) = Len(INLINE_STYLES)
    /\ \A i \in DOMAIN INLINE_STYLES :
          view.inline[i].active
             <=> INLINE_STYLES[i].style \in getCurrentInlineStyle(state.editorState)
    /\ Active(view.inline) = getCurrentInlineStyle(state.editorState)
    /\ Active(viewFC.inline) = getCurrentInlineStyle(editorState)

\* C5 witness: an inline toggle has acted and its button is shown active.
C5_Witness ==
    /\ last.op = "toggleInlineStyle"
    /\ "BOLD" \in Active(view.inline)
    /\ "BOLD" \in getCurrentInlineStyle(state.editorState)

\* C7: at most one of the ten block controls is active, namely the one whose
\* style is the type of the block at the selection start; none is when that
\* type is 'unstyled' or not in the catalog, and the Select then shows no
\* value.
C7_OneActiveBlockControl ==
    /\ Len(view.block) = 10
    /\ Cardinality({i \in DOMAIN view.block : view.block[i].active}) <= 1
    /\ \A i \in DOMAIN view.block :
          view.block[i].active
             <=> BLOCK_TYPES[i].style = TypeAtSelection(state.editorState)
    /\ TypeAtSelection(state.editorState) \notin Styles(BLOCK_TYPES)
          => Active(view.block) = {} /\ viewFC.block = <<>>
    /\ TypeAtSelection(editorState) \in Styles(BLOCK_TYPES)
          => SelectValue(viewFC) = {TypeAtSelection(editorState)}

\* C7 witness: the selection starts in the second block, whose type is in the
\* catalog and is not the first block's, and that type's control is the active
\* one.
C7_Witness ==
    /\ Len(state.editorState.blocks) = 2
    /\ state.editorState.selection.startKey = 2
    /\ state.editorState.blocks[2].type \in Styles(BLOCK_TYPES)
    /\ state.editorState.blocks[1].type \in Styles(BLOCK_TYPES)
    /\ state.editorState.blocks[1].type # state.editorState.blocks[2].type
    /\ Active(view.block) = {state.editorState.blocks[2].type}

\* C9: driven by the same events, the class component and the function
\* component hold the same handle, show the same active inline styles, the
\* same active block type and the same placeholder marker, and their handlers
\* return the same values.
C9_VariantsAgree ==
    /\ state.editorState = editorState
    /\ Active(view.inline) = Active(viewFC.inline)
    /\ Active(view.block) = SelectValue(viewFC)
    /\ view.hidePlaceholder = viewFC.hidePlaceholder
    /\ last = lastFC
    /\ \A e \in KeyInputs :
          /\ KeyDownResult(This, e).command = KeyDownResultFC(Scope, e).command
          /\ KeyDownResult(This, e).ret = KeyDownResultFC(Scope, e).ret

\* C9 witness: both containers were asked for the type the selection already
\* had, and both hold the toggled-off document.
C9_Witness ==
    /\ last.op = "toggleBlockType"
    /\ lastFC.op = "toggleBlockType"
    /\ TypeAtSelection(state.editorState) = "unstyled"
    /\ TypeAtSelection(editorState) = "unstyled"
    /\ Len(editorState.blocks) = 2

\* The held handle after the class component's handler result r is committed.
After(r) == Commit(state, r.setState).editorState

\* The held handle after the function component's handler result r is
\* committed.
AfterFC(r) == Commit(editorState, r.setState)

\* The commands a key binding may name.
Commands ==
    {"bold", "italic", "underline", "code", "backspace", "backspace-word",
     "backspace-to-start-of-line", "delete", "delete-word",
     "delete-to-end-of-block", "split-block", "undo", "redo",
     "transpose-characters", "move-selection-to-start-of-block",
     "move-selection-to-end-of-block", "secondary-cut", "secondary-paste"}

\* The Tab key, with or without shift.
TabInputs == {e \in KeyInputs : e.keyCode = 9}

\* C2 as stated: asking for the type T the block at the selection start
\* already has leaves that block of type T and the active block controls as
\* they were.
C2_ReselectKeepsType ==
    \A T \in Styles(BLOCK_TYPES) :
        TypeAtSelection(state.editorState) = T
        => /\ TypeAtSelection(After(toggleBlockType(This, T))) = T
           /\ Active(BlockStyleControls(After(toggleBlockType(This, T))))
                 = Active(view.block)

\* C2 amended: asking for the type T the block at the selection start already
\* has, with no 'atomic' block selected, toggles it off: that block becomes
\* 'unstyled', no block control is active and the Select shows no value; the
\* text is as it was.
C2_ReselectTogglesOff ==
    \A T \in Styles(BLOCK_TYPES) :
        (/\ TypeAtSelection(state.editorState) = T
         /\ \A k \in state.editorState.selection.startKey
                       ..state.editorState.selection.endKey :
               state.editorState.blocks[k].type # "atomic")
        => /\ TypeAtSelection(After(toggleBlockType(This, T))) = "unstyled"
           /\ Active(BlockStyleControls(After(toggleBlockType(This, T)))) = {}
           /\ BlockStyleControlsFC(AfterFC(toggleBlockTypeFC(Scope, T))) = <<>>
           /\ Text(After(toggleBlockType(This, T))) = Text(state.editorState)

\* C2 witness: a block-type request has toggled the type at the selection
\* off, in a document that has text.
C2_Witness ==
    /\ last.op = "toggleBlockType"
    /\ TypeAtSelection(state.editorState) = "unstyled"
    /\ Active(view.block) = {}
    /\ hasText(state.editorState.blocks)

\* C3 as stated: handleKeyCommand returns 'handled' exactly when the engine
\* produced a state that differs from the handle given; the held handle then
\* becomes that state; on 'not-handled' onChange is not invoked.
C3_HandledIffDiffers ==
    \A command \in Commands :
        LET es == state.editorState
            newState == RichUtils_handleKeyCommand(es, command)
            r == handleKeyCommand(This, command, es)
        IN  /\ r.ret = "handled" <=> (newState # <<>> /\ newState[1] # es)
            /\ r.ret = "handled" => After(r) = newState[1]
            /\ r.ret = "not-handled" => r.setState = <<>>

\* C3 amended: handleKeyCommand returns 'handled' exactly when the engine
\* returned a state for the command (it may equal the handle given, as for
\* 'code' with the caret in an 'atomic' block); onChange is then invoked with
\* that state and it becomes the held handle; otherwise the result is
\* 'not-handled' and onChange is not invoked.  Both RichEditor containers and
\* MyEditor.
C3_HandledIffStateReturned ==
    \A command \in Commands :
        LET es == state.editorState
            newState == RichUtils_handleKeyCommand(es, command)
            r == handleKeyCommand(This, command, es)
            rFC == handleKeyCommandFC(Scope, command, editorState)
        IN  /\ r.ret \in {"handled", "not-handled"}
            /\ r.ret = "handled" <=> newState # <<>>
            /\ r.ret = "handled"
                  => r.setState = onChange(This, newState[1])
                     /\ After(r) = newState[1]
            /\ r.ret = "not-handled" => r.setState = <<>> /\ After(r) = es
            /\ rFC.ret = r.ret
            /\ AfterFC(rFC) = After(r)
            /\ LET newMy == RichUtils_handleKeyCommand(myEditorState, command)
                   rMy == MyEditor_handleKeyCommand(ScopeMy, command, myEditorState)
               IN  /\ rMy.ret = "handled" <=> newMy # <<>>
                   /\ rMy.ret = "handled" => rMy.setState = << newMy[1] >>
                   /\ rMy.ret # "handled"
                         => rMy.ret = "not-handled" /\ rMy.setState = <<>>

\* C3 witness: a key command was handled although the engine returned the
\* handle it was given: 'code' with the caret in an 'atomic' block.
C3_Witness ==
    /\ last = [op |-> "keyDown", ret |-> "handled"]
    /\ TypeAtSelection(state.editorState) = "atomic"
    /\ state.editorState.inlineStyleOverride = <<>>
    /\ RichUtils_handleKeyCommand(state.editorState, "code") = << state.editorState >>

\* C4: a Tab key event is given to the engine's onTab with maximum depth 4;
\* onChange is invoked with the result only when it differs from the held
\* handle; the mapping returns null, so no command is handled; no block is
\* ever nested deeper than 4.
C4_TabAdjustsDepth ==
    /\ \A k \in DOMAIN state.editorState.blocks :
          state.editorState.blocks[k].depth \in 0..4
    /\ \A e \in TabInputs :
          LET es == state.editorState
              newEditorState == RichUtils_onTab(e, es, 4)
              r == mapKeyToEditorCommand(This, e)
              rFC == mapKeyToEditorCommandFC(Scope, e)
          IN  /\ r.ret = "null"
              /\ rFC.ret = "null"
              /\ r.setState = IF newEditorState # es
                              THEN onChange(This, newEditorState) ELSE <<>>
              /\ rFC.setState = IF newEditorState # es
                                THEN onChangeFC(Scope, newEditorState) ELSE <<>>
              /\ After(r) = newEditorState
              /\ KeyDownResult(This, e).command = "null"
              /\ KeyDownResult(This, e).setState = r.setState

\* C4 witness: Tab has nested a list item down to the maximum depth.
C4_Witness ==
    /\ last = [op |-> "keyDown", ret |-> "undefined"]
    /\ TypeAtSelection(state.editorState)
          \in {"unordered-list-item", "ordered-list-item"}
    /\ state.editorState.blocks[state.editorState.selection.startKey].depth = 4

\* The held handle after two consecutive toggleInlineStyle(S) requests, each
\* committed before the next.
AfterOne(S) == After(toggleInlineStyle(This, S))

AfterTwo(S) ==
    Commit([editorState |-> AfterOne(S)],
           toggleInlineStyle([state |-> [editorState |-> AfterOne(S)],
                              editor |-> editor], S).setState).editorState

\* The handle MyEditor holds when its Bold button is pressed n times, each
\* press committed before the next.
RECURSIVE InOrderMy(_, _)
InOrderMy(es, n) ==
    IF n = 0 THEN es
    ELSE InOrderMy(Commit(es, MyEditor_onMouseDown([editorState |-> es]).setState),
                   n - 1)

\* C6 as stated: for every held handle and every style S absent at the
\* selection, after the first of two consecutive toggleInlineStyle(S) S is
\* active, after the second it is absent again, and the text is unchanged.
C6_ToggleTwice ==
    \A S \in Styles(INLINE_STYLES) :
        S \notin getCurrentInlineStyle(state.editorState)
        => /\ S \in getCurrentInlineStyle(AfterOne(S))
           /\ S \notin getCurrentInlineStyle(AfterTwo(S))
           /\ Text(AfterTwo(S)) = Text(state.editorState)

\* C6 amended: the same, for a held handle whose selection is collapsed or is
\* a range that starts before a character of its start block (a range that
\* starts at the end of a block or in an empty block has no character there to
\* carry S, and S stays absent).
C6_ToggleTwiceOnCaretOrText ==
    /\ (/\ "BOLD" \notin getCurrentInlineStyle(myEditorState)
        /\ \/ isCollapsed(myEditorState.selection)
           \/ myEditorState.selection.startOffset
                 < getLength(myEditorState.blocks[myEditorState.selection.startKey]))
       => /\ "BOLD" \in getCurrentInlineStyle(InOrderMy(myEditorState, 1))
          /\ "BOLD" \notin getCurrentInlineStyle(InOrderMy(myEditorState, 2))
          /\ Text(InOrderMy(myEditorState, 2)) = Text(myEditorState)
    /\ \A S \in Styles(INLINE_STYLES) :
        (/\ S \notin getCurrentInlineStyle(state.editorState)
         /\ \/ isCollapsed(state.editorState.selection)
            \/ state.editorState.selection.startOffset
                  < getLength(state.editorState.blocks[
                                 state.editorState.selection.startKey]))
        => /\ S \in getCurrentInlineStyle(AfterOne(S))
           /\ S \in Active(InlineStyleControls(AfterOne(S)))
           /\ S \notin getCurrentInlineStyle(AfterTwo(S))
           /\ Text(AfterOne(S)) = Text(state.editorState)
           /\ Text(AfterTwo(S)) = Text(state.editorState)
           /\ AfterFC(toggleInlineStyleFC(Scope, S)) = AfterOne(S)

\* C6 witness: an inline toggle has acted on a selected character and its
\* style is active there.
C6_Witness ==
    /\ last.op = "toggleInlineStyle"
    /\ ~isCollapsed(state.editorState.selection)
    /\ state.editorState.selection.startOffset
          < getLength(state.editorState.blocks[state.editorState.selection.startKey])
    /\ "ITALIC" \in getCurrentInlineStyle(state.editorState)
    /\ "ITALIC" \notin getCurrentInlineStyle(AfterOne("ITALIC"))

\* C8 as stated: focus() whether or not the surface is mounted, the key
\* mapping of any key other than Tab (which returns the engine's default
\* command), and a handleKeyCommand that returns 'not-handled' all leave the
\* held handle unchanged.
C8_OnlyOnChangeReplaces ==
    /\ After(focus(This)) = state.editorState
    /\ AfterFC(focusFC(Scope)) = editorState
    /\ \A e \in KeyInputs \ TabInputs :
          /\ mapKeyToEditorCommand(This, e).ret = getDefaultKeyBinding(e)
          /\ After(mapKeyToEditorCommand(This, e)) = state.editorState
    /\ \A command \in Commands :
          handleKeyCommand(This, command, state.editorState).ret = "not-handled"
          => After(handleKeyCommand(This, command, state.editorState))
                = state.editorState

\* C8 amended: focus() leaves the held handle unchanged when the surface is
\* not mounted or its selection already has focus; on a mounted surface whose
\* selection has no focus the surface reports the selection with focus through
\* onChange and that becomes the held handle.  The key mapping of any key
\* other than Tab returns the engine's default command and does not invoke
\* onChange, and neither does a handleKeyCommand that returns 'not-handled'.
C8_FrameOfFocusAndKeys ==
    /\ (~editor \/ state.editorState.selection.hasFocus)
          => /\ focus(This).setState = <<>>
             /\ focusFC(Scope).setState = <<>>
             /\ After(focus(This)) = state.editorState
    /\ (editor /\ ~state.editorState.selection.hasFocus)
          => /\ focus(This).setState
                   = onChange(This, EditorState_forceSelection(
                                        state.editorState,
                                        state.editorState.selection))
             /\ After(focus(This)).selection.hasFocus
             /\ After(focus(This)).blocks = state.editorState.blocks
             /\ AfterFC(focusFC(Scope)) = After(focus(This))
    /\ \A e \in KeyInputs \ TabInputs :
          /\ mapKeyToEditorCommand(This, e).ret = getDefaultKeyBinding(e)
          /\ mapKeyToEditorCommand(This, e).setState = <<>>
          /\ mapKeyToEditorCommandFC(Scope, e).ret = getDefaultKeyBinding(e)
          /\ mapKeyToEditorCommandFC(Scope, e).setState = <<>>
    /\ \A command \in Commands :
          handleKeyCommand(This, command, state.editorState).ret = "not-handled"
          => /\ handleKeyCommand(This, command, state.editorState).setState = <<>>
             /\ handleKeyCommandFC(Scope, command, editorState).setState = <<>>

\* C8 witness: focus() on the mounted surface has replaced the held handle.
C8_Witness ==
    /\ editor
    /\ last.op = "focus"
    /\ state.editorState.selection.hasFocus
    /\ ~hasText(state.editorState.blocks)

\* The handle held when the requests reqs are handled one after the other,
\* each committed before the next is dispatched.
RECURSIVE InOrder(_, _)
InOrder(es, reqs) ==
    IF reqs = <<>> THEN es
    ELSE InOrder(Commit([editorState |-> es],
                        Handle([state |-> [editorState |-> es], editor |-> TRUE],
                               Head(reqs)).setState).editorState,
                 Tail(reqs))

====
